---------------------------- MODULE Spec2Model ----------------------------
(***************************************************************************)
(* A model of the core library of FinDocGPT (src/core/*.py): the decision  *)
(* engine, the relevance ranker, the anomaly detector, the drift           *)
(* forecaster and the CSV price normaliser.                                *)
(*                                                                         *)
(* Every function of the library is a pure function of its arguments, so   *)
(* the state machine is a single call: Init draws the function (op) and    *)
(* its arguments (args) from bounded sets, and one action per function     *)
(* runs it and stores what it returns or raises in result.                 *)
(*                                                                         *)
(* Numbers.  Python floats are modelled as follows.                        *)
(*   - strategy.py: percentages and sentiment scores are integers in       *)
(*     hundredths (2 % = 200, 0.1 = 10), which is exact for the            *)
(*     comparisons the code makes.                                         *)
(*   - anomaly.py: returns and z-scores are fixed-point integers in        *)
(*     thousandths.                                                        *)
(*   - forecast.py: returns and predicted prices are exact rationals       *)
(*     <<numerator, denominator>> in lowest terms.                         *)
(***************************************************************************)
EXTENDS Integers, Sequences, FiniteSets, TLC

VARIABLES
    op,      \* the function being called, or "app" for the Streamlit script
    args,    \* its arguments
    pc,      \* "call" before the function has run, "done" after
    result,  \* what the call gave: a value returned or an exception raised
    session, \* app.py: st.session_state
    uploaded,\* app.py: the file held by the document uploader (key doc_upload)
    run      \* app.py: where the current script run is, which button started
             \* it, and whether its forecast attempt failed

vars == <<op, args, pc, result, session, uploaded, run>>

Pending == [status |-> "pending"]
Return(v) == [status |-> "return", value |-> v]
Raise(msg) == [status |-> "raise", error |-> msg]

\* Python's string type, tagged, so that a str and a list are told apart.
PyStr(s) == [type |-> "str", val |-> s]

-----------------------------------------------------------------------------
(***************************************************************************)
(* core/strategy.py                                                        *)
(***************************************************************************)

\* Thresholds of the decision rules and the reasons, in hundredths.
BuyChange == 200
SellChange == -200
BuySentiment == 10
SellSentiment == -10
PositiveSentiment == 20
NegativeSentiment == -20

Labels == {"None", "Mild", "Severe"}

\* Inputs: the values around every threshold, and the spec's scenarios.
ChangeVals == {-500, -201, -200, -199, 0, 199, 200, 201, 300}
SentVals == {-100, -21, -20, -19, -11, -10, -9, 0, 9, 10, 11, 19, 20, 21, 50, 100}

\* "; ".join(reasons)
RECURSIVE Join(_, _)
Join(sep, strs) ==
    IF Len(strs) = 0 THEN ""
    ELSE IF Len(strs) = 1 THEN strs[1]
    ELSE strs[1] \o sep \o Join(sep, Tail(strs))

SentimentReason(sentiment_score) ==
    IF sentiment_score > PositiveSentiment THEN "Positive sentiment"
    ELSE IF sentiment_score < NegativeSentiment THEN "Negative sentiment"
    ELSE "Neutral sentiment"

AnomalyReason(anomaly_level) ==
    IF anomaly_level = "Severe" THEN "Severe anomalies detected"
    ELSE IF anomaly_level = "Mild" THEN "Mild anomalies detected"
    ELSE "No anomalies detected"

\* A decision rule with the BUY gate off by one at its boundary (>= for >).
decision_rule_ge(forecast_change, sentiment_score, anomaly_level) ==
    IF forecast_change >= BuyChange /\ sentiment_score > BuySentiment
       /\ anomaly_level = "None" THEN "BUY"
    ELSE IF forecast_change < SellChange \/ sentiment_score < SellSentiment
            \/ anomaly_level = "Severe" THEN "SELL"
    ELSE "HOLD"

decision_rule(forecast_change, sentiment_score, anomaly_level) ==
    IF forecast_change > BuyChange /\ sentiment_score > BuySentiment
       /\ anomaly_level = "None" THEN "BUY"
    ELSE IF forecast_change < SellChange \/ sentiment_score < SellSentiment
            \/ anomaly_level = "Severe" THEN "SELL"
    ELSE "HOLD"

\* Reasons appended in the wrong order (anomaly first).
reasons_swapped(sentiment_score, anomaly_level) ==
    <<AnomalyReason(anomaly_level), SentimentReason(sentiment_score)>>

reasons_of(sentiment_score, anomaly_level) ==
    <<SentimentReason(sentiment_score), AnomalyReason(anomaly_level)>>

\* Returns the pair (decision, reason_text); reason_text is one str.
investment_strategy(forecast_change, sentiment_score, anomaly_level) ==
    LET reasons == reasons_of(sentiment_score, anomaly_level)
        decision == decision_rule(forecast_change, sentiment_score, anomaly_level)
        reason_text == Join("; ", reasons)
    IN  [decision |-> decision, reason |-> PyStr(reason_text)]

StrategyArgs ==
    [forecast_change : ChangeVals, sentiment_score : SentVals, anomaly_level : Labels]

InvestmentStrategy ==
    /\ pc = "call"
    /\ op = "investment_strategy"
    /\ result' = Return(investment_strategy(args.forecast_change,
                                            args.sentiment_score,
                                            args.anomaly_level))
    /\ pc' = "done"
    /\ UNCHANGED <<op, args, session, uploaded, run>>

-----------------------------------------------------------------------------
(***************************************************************************)
(* core/qna.py                                                             *)
(*                                                                         *)
(* A sentence or question is a string; Tokens gives the terms the          *)
(* TfidfVectorizer finds in it (words of two or more characters).  The     *)
(* cosine similarity of the tf-idf vectors is a score in 0..MaxScore       *)
(* (MaxScore stands for 1.0): 0 exactly when the question and the          *)
(* sentence share no term, and otherwise a positive level that the call    *)
(* draws per sentence text (args.weight), since the weights depend on the  *)
(* whole corpus.                                                           *)
(***************************************************************************)

MaxSentences == 3
MaxTopK == 3
MaxScore == 2

SentenceTexts == {"Revenue rose.", "Revenue fell.", "Costs rose.", "5."}
Questions == {"Revenue?", "?"}

Tokens(text) ==
    CASE text = "Revenue rose." -> {"revenue", "rose"}
      [] text = "Revenue fell." -> {"revenue", "fell"}
      [] text = "Costs rose." -> {"costs", "rose"}
      [] text = "Revenue?" -> {"revenue"}
      [] OTHER -> {}

\* The vocabulary TfidfVectorizer().fit builds over sentences + [question].
Vocabulary(question, sentences) ==
    Tokens(question) \cup UNION {Tokens(sentences[i]) : i \in 1..Len(sentences)}

\* cosine_similarity(q, S).ravel(): one score per sentence position.
CosineSims(question, sentences, weight) ==
    [i \in 1..Len(sentences) |->
        IF Tokens(question) \cap Tokens(sentences[i]) = {} THEN 0
        ELSE weight[sentences[i]]]

\* sims.argsort(): the orders of the positions in which the scores ascend.
\* The default sort kind is not stable, so equal scores may come in any
\* order.
Argsort(sims) ==
    {p \in [1..Len(sims) -> 1..Len(sims)] :
        /\ \A i, j \in 1..Len(sims) : i # j => p[i] # p[j]
        /\ \A i \in 1..(Len(sims) - 1) : sims[p[i]] <= sims[p[i + 1]]}

\* order[::-1]
Reversed(order) == [i \in 1..Len(order) |-> order[Len(order) + 1 - i]]

Min(a, b) == IF a <= b THEN a ELSE b

\* Keeps the ascending order (the [::-1] forgotten): the lowest scores.
TopIdxs_ascending(order, top_k) == SubSeq(order, 1, Min(top_k, Len(order)))

\* sims.argsort()[::-1][:top_k], for top_k > 0
TopIdxs(order, top_k) == SubSeq(Reversed(order), 1, Min(top_k, Len(order)))

\* order is the outcome of sims.argsort().
answer_question(question, sentences, top_k, weight, order) ==
    IF Len(sentences) = 0 THEN Return([idxs |-> <<>>, pairs |-> <<>>])
    ELSE IF Vocabulary(question, sentences) = {}
    THEN Raise("ValueError: empty vocabulary")
    ELSE LET sims == CosineSims(question, sentences, weight)
             idxs == TopIdxs(order, top_k)
         IN  Return([idxs |-> idxs,
                     pairs |-> [k \in 1..Len(idxs) |->
                                  <<sims[idxs[k]], sentences[idxs[k]]>>]])

SeqsUpTo(S, n) == UNION {[1..k -> S] : k \in 0..n}

\* The sentence texts that share a term with some question: only their
\* scores can be positive.
ScoredTexts ==
    {t \in SentenceTexts : \E q \in Questions : Tokens(q) \cap Tokens(t) # {}}

QnaArgs ==
    [question : Questions,
     sentences : SeqsUpTo(SentenceTexts, MaxSentences),
     top_k : 1..MaxTopK,
     weight : [ScoredTexts -> 1..MaxScore]]

AnswerQuestion ==
    /\ pc = "call"
    /\ op = "answer_question"
    /\ \E order \in Argsort(CosineSims(args.question, args.sentences, args.weight)) :
          result' = answer_question(args.question, args.sentences, args.top_k,
                                    args.weight, order)
    /\ pc' = "done"
    /\ UNCHANGED <<op, args, session, uploaded, run>>

-----------------------------------------------------------------------------
(***************************************************************************)
(* core/anomaly.py                                                         *)
(*                                                                         *)
(* A cell of the Close column is a positive price or NaN (a missing cell,  *)
(* or one that pd.to_numeric(errors="coerce") could not read).  Returns    *)
(* and z-scores are fixed-point, in units of 1/RScale and 1/ZScale.        *)
(***************************************************************************)

NaN == -1000000
RScale == 1000
ZScale == 1000
MinReturns == 5

MaxPrices == 8
PriceVals == {1, 2}

\* (mild, severe) in units of 1/ZScale: the defaults 2.0 and 3.0, and a
\* lower pair that short series reach.
ThresholdPairs == {<<2000, 3000>>, <<1000, 2000>>}

RECURSIVE Sum(_)
Sum(xs) == IF Len(xs) = 0 THEN 0 ELSE Head(xs) + Sum(Tail(xs))

Abs(x) == IF x < 0 THEN 0 - x ELSE x

RECURSIVE MaxOf(_)
MaxOf(xs) ==
    IF Len(xs) = 1 THEN xs[1]
    ELSE LET m == MaxOf(Tail(xs)) IN IF xs[1] >= m THEN xs[1] ELSE m

\* The integer square root of v, searched between lo and hi.
RECURSIVE SqrtIn(_, _, _)
SqrtIn(v, lo, hi) ==
    IF lo >= hi THEN lo
    ELSE LET mid == (lo + hi + 1) \div 2
         IN  IF mid * mid <= v THEN SqrtIn(v, mid, hi) ELSE SqrtIn(v, lo, mid - 1)

Sqrt(v) == SqrtIn(v, 0, 46340)

\* Series.ffill(): a NaN takes the last value before it, if there is one.
RECURSIVE Ffill(_)
Ffill(xs) ==
    IF Len(xs) <= 1 THEN xs
    ELSE LET f == Ffill(SubSeq(xs, 1, Len(xs) - 1))
             x == xs[Len(xs)]
         IN  Append(f, IF x = NaN THEN f[Len(f)] ELSE x)

\* Series.pct_change(): NaN first, then (x[i] - x[i-1]) / x[i-1].  With
\* fill_pad (the default fill_method of pandas before 3.0) the NaNs are
\* forward-filled first.
PctChange(xs, fill_pad) ==
    LET f == IF fill_pad THEN Ffill(xs) ELSE xs
    IN  [i \in 1..Len(f) |->
            IF i = 1 \/ f[i] = NaN \/ f[i - 1] = NaN THEN NaN
            ELSE ((f[i] - f[i - 1]) * RScale) \div f[i - 1]]

\* Series.dropna()
IsNumber(x) == x # NaN
DropNa(xs) == SelectSeq(xs, IsNumber)

\* rets.mean()
Mean(rets) == Sum(rets) \div Len(rets)

\* rets.std(ddof=1)
Std(rets) ==
    LET m == Mean(rets)
        sq == [i \in 1..Len(rets) |-> (rets[i] - m) * (rets[i] - m)]
    IN  Sqrt(Sum(sq) \div (Len(rets) - 1))

\* float(np.abs((rets - mean) / (std + 1e-9)).max()).  The 1e-9 is far below
\* one unit of the fixed point: it only makes the quotient 0, not 0/0, when
\* all returns are equal.
MaxAbsZ(rets) ==
    LET m == Mean(rets)
        sd == Std(rets)
    IN  IF sd = 0 THEN 0
        ELSE MaxOf([i \in 1..Len(rets) |-> (Abs(rets[i] - m) * ZScale) \div sd])

\* The thresholds tested the wrong way round (mild first).
LabelOf_mild_first(max_abs_z, mild, severe) ==
    IF max_abs_z >= mild THEN "Mild"
    ELSE IF max_abs_z >= severe THEN "Severe"
    ELSE "None"

LabelOf(max_abs_z, mild, severe) ==
    IF max_abs_z >= severe THEN "Severe"
    ELSE IF max_abs_z >= mild THEN "Mild"
    ELSE "None"

\* A guard that lets a series of 4 returns through (< 4 for < 5).
TooFew_off_by_one(rets) == Len(rets) < MinReturns - 1

TooFew(rets) == Len(rets) < MinReturns

anomaly_from_prices(close, mild, severe, fill_pad) ==
    LET prices == close
        rets == DropNa(PctChange(prices, fill_pad))
    IN  IF TooFew(rets)
        THEN Return([label |-> "None", n |-> Len(rets), max_z |-> 0])
        ELSE LET max_abs_z == MaxAbsZ(rets)
             IN  Return([label |-> LabelOf(max_abs_z, mild, severe),
                         n |-> Len(rets), max_z |-> max_abs_z])

AnomalyArgs ==
    [close : SeqsUpTo(PriceVals \cup {NaN}, MaxPrices),
     thresholds : ThresholdPairs,
     fill_pad : BOOLEAN]

AnomalyFromPrices ==
    /\ pc = "call"
    /\ op = "anomaly_from_prices"
    /\ result' = anomaly_from_prices(args.close, args.thresholds[1],
                                     args.thresholds[2], args.fill_pad)
    /\ pc' = "done"
    /\ UNCHANGED <<op, args, session, uploaded, run>>

-----------------------------------------------------------------------------
(***************************************************************************)
(* core/forecast.py: forecast_prices                                       *)
(*                                                                         *)
(* A price history is a sequence of rows [Date, Close]; a Date is a day    *)
(* number, a Close a positive integer.  Returns and predictions are exact  *)
(* rationals <<numerator, denominator>> in lowest terms; <<0, 0>> is NaN.  *)
(***************************************************************************)

MaxRows == 3
MaxDate == 4
MaxHorizon == 3
ClosePrices == {1, 2, 3}

RECURSIVE Gcd(_, _)
Gcd(a, b) == IF b = 0 THEN a ELSE Gcd(b, a % b)

RatNaN == <<0, 0>>
Rat(n, d) == LET g == Gcd(Abs(n), d) IN <<n \div g, d \div g>>
RatInt(n) == <<n, 1>>
RatAdd(x, y) == Rat(x[1] * y[2] + y[1] * x[2], x[2] * y[2])
RatMul(x, y) == Rat(x[1] * y[1], x[2] * y[2])
RatDivInt(x, k) == Rat(x[1], x[2] * k)

RECURSIVE RatSum(_)
RatSum(xs) == IF Len(xs) = 0 THEN RatInt(0) ELSE RatAdd(Head(xs), RatSum(Tail(xs)))

\* base ** e, for an integer e >= 0
RECURSIVE RatPow(_, _)
RatPow(base, e) == IF e = 0 THEN RatInt(1) ELSE RatMul(base, RatPow(base, e - 1))

\* pd.Series(prices).pct_change() on prices without NaN
RatPctChange(prices) ==
    [i \in 1..Len(prices) |->
        IF i = 1 THEN RatNaN
        ELSE Rat(prices[i] - prices[i - 1], prices[i - 1])]

RatIsNumber(x) == x # RatNaN
RatDropNa(xs) == SelectSeq(xs, RatIsNumber)

\* np.mean(rets)
RatMean(rets) == RatDivInt(RatSum(rets), Len(rets))

\* A range of dates that starts on the last historical date itself.
DateRange_from_last(last_date, periods) ==
    [t \in 1..periods |-> last_date + (t - 1)]

\* pd.date_range(last_date + Timedelta(days=1), periods=periods, freq="D")
DateRange(last_date, periods) ==
    [t \in 1..periods |-> (last_date + 1) + (t - 1)]

\* Exponents 0 .. steps-1 (np.arange(steps) for np.arange(1, steps + 1)).
GrowthFactors_from_zero(avg_ret, steps) ==
    [t \in 1..steps |-> RatPow(RatAdd(RatInt(1), avg_ret), t - 1)]

\* (1.0 + avg_ret) ** np.arange(1, steps + 1)
GrowthFactors(avg_ret, steps) ==
    [t \in 1..steps |-> RatPow(RatAdd(RatInt(1), avg_ret), t)]

\* The two checks of forecast_prices in the other order.
ForecastError_returns_first(horizon_days, rets) ==
    IF Len(rets) = 0 THEN "ValueError: Return series is empty after cleaning."
    ELSE IF horizon_days <= 0 THEN "ValueError: horizon_days must be > 0."
    ELSE "none"

\* What forecast_prices raises ("none": nothing); the horizon is checked
\* first.
ForecastError(horizon_days, rets) ==
    IF horizon_days <= 0 THEN "ValueError: horizon_days must be > 0."
    ELSE IF Len(rets) = 0 THEN "ValueError: Return series is empty after cleaning."
    ELSE "none"

forecast_prices(hist_df, horizon_days) ==
    LET prices == [i \in 1..Len(hist_df) |-> hist_df[i].Close]
        rets == RatDropNa(RatPctChange(prices))
        error == ForecastError(horizon_days, rets)
    IN  IF error # "none" THEN Raise(error)
        ELSE LET avg_ret == RatMean(rets)
                 last_price == prices[Len(prices)]
                 steps == horizon_days
                 future_dates == DateRange(hist_df[Len(hist_df)].Date, steps)
                 growth_factors == GrowthFactors(avg_ret, steps)
                 preds == [t \in 1..steps |->
                             RatMul(RatInt(last_price), growth_factors[t])]
             IN  Return([t \in 1..steps |->
                           [Date |-> future_dates[t], Predicted |-> preds[t]]])

\* The valid price series: dates strictly increasing, prices positive.
PriceSeries(max_rows) ==
    {h \in SeqsUpTo([Date : 1..MaxDate, Close : ClosePrices], max_rows) :
        \A i \in 1..(Len(h) - 1) : h[i].Date < h[i + 1].Date}

ForecastArgs ==
    [hist_df : PriceSeries(MaxRows), horizon_days : -1..MaxHorizon]

ForecastPrices ==
    /\ pc = "call"
    /\ op = "forecast_prices"
    /\ result' = forecast_prices(args.hist_df, args.horizon_days)
    /\ pc' = "done"
    /\ UNCHANGED <<op, args, session, uploaded, run>>

-----------------------------------------------------------------------------
(***************************************************************************)
(* core/forecast.py: clean_price_csv                                       *)
(*                                                                         *)
(* The table that pd.read_csv returns is its set of column names and its   *)
(* rows; a row holds the cells of the two columns that the function        *)
(* selects (the cells of other columns are never read).  A cell is a       *)
(* number (a day number, a price) or BadCell: empty, or text that is no    *)
(* date / no number.                                                       *)
(***************************************************************************)

BadCell == -1
NaT == NaN
None == "<None>"
MinCleanRows == 10

MaxBaseRows == 12
MaxExtraRows == 2

date_cols == <<"Date", "date", "timestamp", "Datetime", "datetime">>
close_cols == <<"Close", "Adj Close", "close", "adj_close", "Price", "price">>

SchemaError ==
    "ValueError: CSV must contain a date column (e.g., Date) and a close/price column (e.g., Close)."
TooFewRowsError ==
    "ValueError: CSV has fewer than 10 clean rows after parsing. Add more history."

\* The last candidate that is a column, not the first.
FirstIn_last(cands, columns) ==
    LET hits == {i \in 1..Len(cands) : cands[i] \in columns}
    IN  IF hits = {} THEN None
        ELSE cands[CHOOSE i \in hits : \A j \in hits : j <= i]

\* next((c for c in cands if c in df.columns), None)
FirstIn(cands, columns) ==
    LET hits == {i \in 1..Len(cands) : cands[i] \in columns}
    IN  IF hits = {} THEN None
        ELSE cands[CHOOSE i \in hits : \A j \in hits : i <= j]

\* pd.to_datetime(..., errors="coerce") and pd.to_numeric(..., errors="coerce")
ToDatetime(cell) == IF cell = BadCell THEN NaT ELSE cell
ToNumeric(cell) == IF cell = BadCell THEN NaN ELSE cell

\* A dropna that looks at the Date only.
Complete_date_only(row) == row.Date # NaT

\* DataFrame.dropna(): the rows without a missing Date or Close
Complete(row) == row.Date # NaT /\ row.Close # NaN
DropNaRows(rows) == SelectSeq(rows, Complete)

\* DataFrame.drop_duplicates(subset=["Date"]): the first row of each date
RECURSIVE DropDuplicateDates(_)
DropDuplicateDates(rows) ==
    IF Len(rows) = 0 THEN rows
    ELSE LET init == DropDuplicateDates(SubSeq(rows, 1, Len(rows) - 1))
             last == rows[Len(rows)]
         IN  IF \E i \in 1..Len(init) : init[i].Date = last.Date THEN init
             ELSE Append(init, last)

\* DataFrame.sort_values("Date"): ascending by date (insertion, stable)
RECURSIVE SortByDate(_)
SortByDate(rows) ==
    IF Len(rows) <= 1 THEN rows
    ELSE LET init == SortByDate(SubSeq(rows, 1, Len(rows) - 1))
             last == rows[Len(rows)]
             k == Cardinality({i \in 1..Len(init) : init[i].Date <= last.Date})
         IN  SubSeq(init, 1, k) \o <<last>> \o SubSeq(init, k + 1, Len(init))

clean_price_csv(df) ==
    LET date_col == FirstIn(date_cols, df.columns)
        close_col == FirstIn(close_cols, df.columns)
    IN  IF date_col = None \/ close_col = None THEN Raise(SchemaError)
        ELSE LET parsed == [i \in 1..Len(df.rows) |->
                              [Date |-> ToDatetime(df.rows[i].date),
                               Close |-> ToNumeric(df.rows[i].close)]]
                 out == SortByDate(DropDuplicateDates(DropNaRows(parsed)))
             IN  IF Len(out) < MinCleanRows THEN Raise(TooFewRowsError)
                 ELSE Return([date_col |-> date_col, close_col |-> close_col,
                              out |-> out])

\* Tables.  The base rows are the dates 1..k, ascending or descending, each
\* with the price 100 + its date; one of them may have an unreadable price;
\* up to MaxExtraRows further rows (a repeated date, an unreadable date or
\* price) come before or after them.
ColumnNames ==
    {date_cols[i] : i \in 1..Len(date_cols)}
        \cup {close_cols[i] : i \in 1..Len(close_cols)} \cup {"foo", "bar"}

BaseRows(k, descending, bad) ==
    [i \in 1..k |->
        LET d == IF descending THEN k + 1 - i ELSE i
        IN  [date |-> d, close |-> IF i = bad THEN BadCell ELSE 100 + d]]

ExtraRow == [date : {1, 2, BadCell}, close : {7, BadCell}]

TableRows ==
    {IF first THEN extra \o BaseRows(k, descending, bad)
              ELSE BaseRows(k, descending, bad) \o extra :
        k \in (MinCleanRows - 1)..MaxBaseRows,
        descending \in BOOLEAN,
        bad \in {0, 1, MinCleanRows - 1},
        extra \in SeqsUpTo(ExtraRow, MaxExtraRows),
        first \in BOOLEAN}

\* Every set of column names over a few row sets, and every row set under
\* the columns of the spec's scenario.
CleanArgs ==
    [df : [columns : SUBSET ColumnNames,
           rows : {BaseRows(k, FALSE, 0) : k \in (MinCleanRows - 1)..MinCleanRows}]
          \cup [columns : {{"timestamp", "price"}}, rows : TableRows]]

CleanPriceCsv ==
    /\ pc = "call"
    /\ op = "clean_price_csv"
    /\ result' = clean_price_csv(args.df)
    /\ pc' = "done"
    /\ UNCHANGED <<op, args, session, uploaded, run>>

-----------------------------------------------------------------------------
\* core/forecast.py: _extract_close_from_download, fetch_prices.
\* The frame that yf.download returns is absent ("none"), or has flat
\* columns (a set of field names), or has two-level columns (field names
\* over a list of tickers).  Its index holds the dates; every price column
\* of a row holds the row's close, so a frame's rows are <<date, close>>
\* as in a table.  The column picked is part of the value modelled.
EmptyFrameError == "No price data returned (empty frame)."
NoCloseLevelError == "Could not find Close/Adj Close column in yfinance data."
NoCloseColumnError == "Close column not found in yfinance data."
\* (the source writes the sign for "at least" where this has ">=")
TooLittleHistoryError == "Not enough history to forecast (need >= 10 rows)."

FrameFields == {"Close", "Adj Close", "Volume"}
Tickers == {"AAPL", "MSFT"}

\* DataFrame.empty: an axis of length 0
FrameEmpty(df) ==
    \/ Len(df.rows) = 0
    \/ df.fields = {}
    \/ df.kind = "multi" /\ Len(df.tickers) = 0

\* lines 39-46: "Adj Close" before "Close" under two-level columns
MultiField(df) ==
    FirstIn(<<"Adj Close", "Close">>, df.fields)

\* line 45: the ticker's column if there is one, else the first column
TickerColumn(df, ticker) ==
    IF \E i \in 1..Len(df.tickers) : df.tickers[i] = ticker
    THEN ticker ELSE df.tickers[1]

_extract_close_from_download(df, ticker) ==
    IF df.kind = "none" \/ FrameEmpty(df) THEN Raise(EmptyFrameError)
    ELSE IF df.kind = "multi"
    THEN IF MultiField(df) = None THEN Raise(NoCloseLevelError)
         ELSE Return([column |-> <<MultiField(df), TickerColumn(df, ticker)>>,
                      rows |-> df.rows])
    ELSE IF "Close" \notin df.fields
    THEN IF "Adj Close" \in df.fields
         THEN Return([column |-> <<"Adj Close">>, rows |-> df.rows])
         ELSE Raise(NoCloseColumnError)
    ELSE Return([column |-> <<"Close">>, rows |-> df.rows])

\* len(out) < 10 at line 74
TooLittleHistory(out) == Len(out) < MinCleanRows

fetch_prices(df, ticker) ==
    LET ext == _extract_close_from_download(df, ticker)
    IN  IF ext.status = "raise" THEN ext
        ELSE LET parsed == [i \in 1..Len(ext.value.rows) |->
                              [Date |-> ToDatetime(ext.value.rows[i].date),
                               Close |-> ToNumeric(ext.value.rows[i].close)]]
                 out == DropNaRows(parsed)
             IN  IF TooLittleHistory(out) THEN Raise(TooLittleHistoryError)
                 ELSE Return([column |-> ext.value.column, out |-> out])

\* The absent frame; every column layout over three row sets (none, 9 and
\* 10 rows); every row set of TableRows under the layouts yfinance gives
\* for one ticker.
Frames ==
    {[kind |-> "none", fields |-> {}, tickers |-> <<>>, rows |-> <<>>]}
    \cup [kind : {"flat", "multi"}, fields : SUBSET FrameFields,
          tickers : SeqsUpTo(Tickers, 2),
          rows : {<<>>} \cup {BaseRows(k, FALSE, 0) :
                                k \in (MinCleanRows - 1)..MinCleanRows}]
    \cup [kind : {"flat"}, fields : {{"Close", "Volume"}}, tickers : {<<>>},
          rows : TableRows]
    \cup [kind : {"multi"}, fields : {{"Close", "Volume"}},
          tickers : {<<"AAPL">>}, rows : TableRows]

FetchArgs == [df : Frames, ticker : {"AAPL"}]

FetchPrices ==
    /\ pc = "call"
    /\ op = "fetch_prices"
    /\ result' = fetch_prices(args.df, args.ticker)
    /\ pc' = "done"
    /\ UNCHANGED <<op, args, session, uploaded, run>>

-----------------------------------------------------------------------------
\* core/sentiment.py: rolling_sentiment.
\* The text is given as the sentences sent_tokenize splits it into, each as
\* it stands in the text (with its surrounding blanks).  The VADER score of
\* a chunk is not computed: a row carries the text that is scored.
MaxSents == 4
MaxWindow == 3

RawSentences == {"Gain.", " Loss. ", " "}

\* str.strip()
Strip(s) ==
    CASE s = " Loss. " -> "Loss."
      [] s = " " -> ""
      [] OTHER -> s

\* [s.strip() for s in sent_tokenize(text) if s.strip()]
StrippedSents(tokenized) ==
    LET stripped == [i \in 1..Len(tokenized) |-> Strip(tokenized[i])]
    IN  SelectSeq(stripped, LAMBDA s : s # "")

\* range(start, stop, step) for a positive step
RECURSIVE Range(_, _, _)
Range(start, stop, step) ==
    IF start >= stop THEN <<>>
    ELSE <<start>> \o Range(start + step, stop, step)

\* sents[i:i+window_sentences]
Slice(sents, i, window_sentences) ==
    SubSeq(sents, i + 1, Min(i + window_sentences, Len(sents)))

\* sia.polarity_scores(chunk)["compound"]
Compound(chunk) == [scored |-> chunk]

RangeStepError == "range() arg 3 must not be zero"

ChunkIndex_start(i, window_sentences) == i

\* i // window_sentences
ChunkIndex(i, window_sentences) == i \div window_sentences

RECURSIVE RollingRows(_, _, _)
RollingRows(sents, starts, window_sentences) ==
    IF starts = <<>> THEN <<>>
    ELSE LET i == Head(starts)
             chunk == Join(" ", Slice(sents, i, window_sentences))
             rest == RollingRows(sents, Tail(starts), window_sentences)
         IN  IF chunk = "" THEN rest
             ELSE <<[index |-> ChunkIndex(i, window_sentences),
                     compound |-> Compound(chunk)]>> \o rest

rolling_sentiment(tokenized, window_sentences) ==
    LET sents == StrippedSents(tokenized)
    IN  IF window_sentences = 0 THEN Raise(RangeStepError)
        ELSE IF window_sentences < 0 THEN Return(<<>>)
        ELSE Return(RollingRows(sents, Range(0, Len(sents), window_sentences),
                                window_sentences))

RollingArgs ==
    [tokenized : SeqsUpTo(RawSentences, MaxSents),
     window_sentences : (-1)..MaxWindow]

RollingSentiment ==
    /\ pc = "call"
    /\ op = "rolling_sentiment"
    /\ result' = rolling_sentiment(args.tokenized, args.window_sentences)
    /\ pc' = "done"
    /\ UNCHANGED <<op, args, session, uploaded, run>>

-----------------------------------------------------------------------------
\* app.py: the Streamlit script.  Every interaction (a button, a change of
\* a widget) runs the script once from the top; at most one button is
\* clicked in a run.  session is st.session_state; a key that holds None
\* is Unset, a key that holds the value v is Set(v).  Sentiment scores and
\* percentages are in hundredths, as in investment_strategy.  The export
\* record leaves out the timestamp and the two prices.
Unset == <<>>
Set(v) == <<v>>

\* x or d
OrElse(x, d) == IF x = Unset THEN d ELSE x[1]

modes == <<"Overview & Q&A", "Sentiment", "Forecast & Strategy", "Export">>

\* lines 119-133: st.session_state.setdefault(...)
SessionDefaults ==
    [mode |-> modes[1],
     doc_text |-> "", doc_source |-> "", nltk_ready |-> FALSE,
     latest_sentiment |-> Unset, latest_anomaly_label |-> "None",
     latest_proj_change |-> Unset,
     demo_hist |-> Unset, demo_fore |-> Unset,
     demo_question |-> Unset, demo_answers |-> Unset,
     latest_export |-> Unset]

\* The run is between two interactions ("idle") or, in a run started by a
\* Run Forecast button, at line 421, after the demo block ("attempt").
IdleRun(clicked, failed) == [at |-> "idle", clicked |-> clicked, failed |-> failed]

\* The sample document of run_quick_demo and the documents a user uploads:
\* a readable one has a text, an unreadable one makes load_text_from_file
\* raise.
sample_doc == "Q1 2025 Earnings Report - TechNova Inc. ..."

Files ==
    {[name |-> "gain.txt", readable |-> TRUE, text |-> "Profits rose."],
     [name |-> "loss.txt", readable |-> TRUE, text |-> "Losses grew."],
     [name |-> "blank.txt", readable |-> TRUE, text |-> ""],
     [name |-> "broken.docx", readable |-> FALSE, text |-> ""]}

\* VADER's compound scores are not computed here.  The script runs with
\* any of these as the score of the sample document (args.sample_compound);
\* the uploaded documents are given one score each.
SampleCompounds == {-50, 5, 50}

\* float(doc_sentiment(text).get("compound", 0.0))
doc_sentiment(text) ==
    CASE text = sample_doc -> args.sample_compound
      [] text = "Profits rose." -> 44
      [] text = "Losses grew." -> -40
      [] OTHER -> 0

\* lines 174-189: 150 days from 70.0 growing by 0.001 a day, forecast over
\* 90 days: growth_pct is (1.001^90 - 1) * 100 = 9.41 %, and the returns are
\* all alike, so the label is "None".
DemoProjChange == 941
DemoHist == [periods |-> 150, anomaly |-> "None"]
DemoFore == [horizon_days |-> 90, growth_pct |-> DemoProjChange]
\* the first quick question of config.yaml, or this one when none is set
default_q == "What is the quarterly revenue?"
demo_ans == <<"Revenue: TechNova reported total revenue of $4.8B, a 12% increase YoY.">>

\* lines 139-214
run_quick_demo(s) ==
    LET sentiment == doc_sentiment(sample_doc)
        proj_change == DemoFore.growth_pct
        label == DemoHist.anomaly
        strategy == investment_strategy(proj_change, sentiment, label)
    IN  [s EXCEPT
            !.doc_text = sample_doc,
            !.doc_source = "sample_document.txt",
            !.nltk_ready = TRUE,
            !.latest_sentiment = Set(sentiment),
            !.demo_question = Set(default_q),
            !.demo_answers = Set(demo_ans),
            !.demo_hist = Set(DemoHist),
            !.demo_fore = Set(DemoFore),
            !.latest_proj_change = Set(proj_change),
            !.latest_anomaly_label = label,
            !.latest_export = Set(
                [source |-> "Quick Demo",
                 horizon_days |-> 90,
                 model |-> "Drift (avg return)",
                 projected_change_pct |-> proj_change,
                 anomaly |-> [label |-> label],
                 sentiment_compound |-> sentiment,
                 decision |-> strategy.decision,
                 reason |-> strategy.reason])]

\* lines 274-290: the uploader's file is read in every run that renders it
LoadUploaded(s, file) ==
    IF file = Unset \/ ~file[1].readable THEN s
    ELSE [s EXCEPT
            !.doc_text = file[1].text,
            !.doc_source = file[1].name,
            !.demo_question = Unset,
            !.demo_answers = Unset,
            !.nltk_ready = TRUE,
            !.latest_sentiment = Set(doc_sentiment(file[1].text))]

\* lines 292-298 and 303-305
DocumentPanel(s) ==
    IF s.doc_text # "" THEN [s EXCEPT !.nltk_ready = TRUE]
    ELSE [s EXCEPT !.latest_sentiment = Unset]

\* lines 262-340: the Overview & Q&A branch
OverviewMode(s, demo_clicked, file) ==
    DocumentPanel(LoadUploaded(IF demo_clicked THEN run_quick_demo(s) ELSE s, file))

\* lines 394-407: latest = get_state("latest_export") or {}; latest.update(...)
UpdateExport(latest, strategy) ==
    IF latest = Unset
    THEN Set([decision |-> strategy.decision, reason |-> strategy.reason])
    ELSE Set([latest[1] EXCEPT !.decision = strategy.decision,
                               !.reason = strategy.reason])

\* lines 370-407: the demo forecast, rendered first in every run of the
\* Forecast & Strategy branch once a demo was loaded
DemoBlock(s) ==
    IF s.demo_hist = Unset \/ s.demo_fore = Unset THEN s
    ELSE LET proj_change == s.demo_fore[1].growth_pct
             label == s.demo_hist[1].anomaly
             sentiment_val == OrElse(s.latest_sentiment, 0)
             strategy == investment_strategy(proj_change, sentiment_val, label)
         IN  [s EXCEPT
                 !.latest_proj_change = Set(proj_change),
                 !.latest_anomaly_label = label,
                 !.latest_export = UpdateExport(s.latest_export, strategy)]

\* What fetch_prices or clean_price_csv gives the script: an exception, or
\* a history.  Of a history the script uses whether its returns are all
\* missing (every price 0), its last close, the change the drift forecast
\* projects from it and its anomaly label.
Sources == {"Ticker (Yahoo)", "CSV file"}
Models == {"Drift (avg return)", "Persistence (last)"}
Horizons == {7, 90}
DriftChanges == {-500, 100, 500}

Histories ==
    [returns_empty : {TRUE}, last_close : {0}, drift_change : {0}, label : {"None"}]
    \cup [returns_empty : {FALSE}, last_close : {0, 100},
          drift_change : DriftChanges, label : Labels]

Loads == {Raise("ValueError")} \cup {Return(h) : h \in Histories}

\* lines 444-449: forecast_prices raises on an empty return series; the
\* persistence forecast repeats the last close
Forecast(hist, model) ==
    IF model = "Drift (avg return)"
    THEN IF hist.returns_empty THEN Raise("Return series is empty after cleaning.")
         ELSE Return([growth_pct |-> hist.drift_change])
    ELSE Return([growth_pct |-> 0])

\* line 452: growth_pct divides by the last close
GrowthPct(hist, fore) ==
    IF hist.last_close = 0 THEN Raise("ZeroDivisionError")
    ELSE Return(fore.growth_pct)

\* lines 493-498: except Exception: st.error(...)
OnForecastFailed_clears(s) ==
    [s EXCEPT !.latest_proj_change = Unset, !.latest_export = Unset]

OnForecastFailed(s) == s

\* lines 442-498: the try block, for a history hist
TryForecast(s, hist, source, model, horizon) ==
    LET fore == Forecast(hist, model)
        pct == IF fore.status = "raise" THEN fore ELSE GrowthPct(hist, fore.value)
    IN  IF pct.status = "raise"
        THEN [session |-> OnForecastFailed(s), failed |-> TRUE]
        ELSE LET proj_change == pct.value
                 anomaly_label == hist.label
                 sentiment_val == OrElse(s.latest_sentiment, 0)
                 strategy == investment_strategy(proj_change, sentiment_val,
                                                 anomaly_label)
             IN  [session |->
                    [s EXCEPT
                        !.latest_proj_change = Set(proj_change),
                        !.latest_anomaly_label = anomaly_label,
                        !.latest_export = Set(
                            [source |-> source,
                             horizon_days |-> horizon,
                             model |-> model,
                             projected_change_pct |-> proj_change,
                             anomaly |-> [label |-> anomaly_label],
                             sentiment_compound |-> sentiment_val,
                             decision |-> strategy.decision,
                             reason |-> strategy.reason])],
                  failed |-> FALSE]

\* lines 421-498: hist = None; the Run Forecast button of the source; the
\* try block when there is a history.  An exception of fetch_prices or
\* clean_price_csv is not caught: it ends the run.
OwnForecast(s, source, csv_file, load, model, horizon) ==
    IF source = "CSV file" /\ ~csv_file THEN [session |-> s, failed |-> FALSE]
    ELSE IF load.status = "raise" THEN [session |-> s, failed |-> TRUE]
    ELSE TryForecast(s, load.value, source, model, horizon)

\* A run that renders the Overview & Q&A branch: started by its navigation
\* button, by the Quick Demo button, by a file put into or taken out of
\* the uploader, or by another widget of the branch.  The uploader keeps
\* its file from run to run while the branch is rendered.
OverviewRun ==
    /\ run.at = "idle"
    /\ \E event \in {"nav", "demo", "upload", "remove", "other"} :
          /\ event # "nav" => session.mode = modes[1]
          /\ event = "remove" => uploaded # Unset
          /\ \E file \in Files :
                uploaded' = CASE event = "upload" -> Set(file)
                              [] event = "remove" -> Unset
                              [] OTHER -> uploaded
          /\ session' = OverviewMode([session EXCEPT !.mode = modes[1]],
                                     event = "demo", uploaded')
          /\ run' = IdleRun(event, FALSE)
    /\ UNCHANGED <<op, args, pc, result>>

\* A run that renders the Sentiment branch (lines 345-360) or the Export
\* branch (lines 504-518).  A widget that a run does not render loses its
\* state: the document uploader holds no file afterwards.
OtherModeRun ==
    /\ run.at = "idle"
    /\ \E m \in {modes[2], modes[4]} :
          session' = [session EXCEPT
                         !.mode = m,
                         !.nltk_ready = @ \/ (m = modes[2] /\ session.doc_text # "")]
    /\ uploaded' = Unset
    /\ run' = IdleRun("nav", FALSE)
    /\ UNCHANGED <<op, args, pc, result>>

\* A run that renders the Forecast & Strategy branch with no Run Forecast
\* button clicked: its navigation button, or a change of one of its
\* controls.
ForecastRun ==
    /\ run.at = "idle"
    /\ session' = DemoBlock([session EXCEPT !.mode = modes[3]])
    /\ uploaded' = Unset
    /\ run' = IdleRun("nav", FALSE)
    /\ UNCHANGED <<op, args, pc, result>>

\* A run started by a Run Forecast button, up to line 421.
ForecastAttemptStart ==
    /\ run.at = "idle"
    /\ session.mode = modes[3]
    /\ session' = DemoBlock(session)
    /\ uploaded' = Unset
    /\ run' = [at |-> "attempt", clicked |-> "forecast", failed |-> FALSE]
    /\ UNCHANGED <<op, args, pc, result>>

\* The same run from line 421 to its end.
ForecastAttempt ==
    /\ run.at = "attempt"
    /\ \E source \in Sources, csv_file \in BOOLEAN, load \in Loads,
          model \in Models, horizon \in Horizons :
          LET end == OwnForecast(session, source, csv_file, load, model, horizon)
          IN  /\ session' = end.session
              /\ run' = IdleRun("forecast", end.failed)
    /\ UNCHANGED <<op, args, pc, result, uploaded>>

-----------------------------------------------------------------------------
Init ==
    /\ pc = "call"
    /\ result = Pending
    /\ session = SessionDefaults
    /\ uploaded = Unset
    /\ run = IdleRun("none", FALSE)
    /\ \/ op = "investment_strategy" /\ args \in StrategyArgs
       \/ op = "answer_question" /\ args \in QnaArgs
       \/ op = "anomaly_from_prices" /\ args \in AnomalyArgs
       \/ op = "forecast_prices" /\ args \in ForecastArgs
       \/ op = "clean_price_csv" /\ args \in CleanArgs
       \/ op = "fetch_prices" /\ args \in FetchArgs
       \/ op = "rolling_sentiment" /\ args \in RollingArgs

Next ==
    \/ InvestmentStrategy
    \/ AnswerQuestion
    \/ AnomalyFromPrices
    \/ ForecastPrices
    \/ CleanPriceCsv
    \/ FetchPrices
    \/ RollingSentiment

Spec == Init /\ [][Next]_vars

\* The Streamlit script, from a new session.
AppInit ==
    /\ op = "app"
    /\ args \in [sample_compound : SampleCompounds]
    /\ pc = "call"
    /\ result = Pending
    /\ session = SessionDefaults
    /\ uploaded = Unset
    /\ run = IdleRun("none", FALSE)

AppNext ==
    \/ OverviewRun
    \/ OtherModeRun
    \/ ForecastRun
    \/ ForecastAttemptStart
    \/ ForecastAttempt

AppSpec == AppInit /\ [][AppNext]_vars

-----------------------------------------------------------------------------
Done(f) == pc = "done" /\ op = f

\* C1: investment_strategy returns BUY exactly when the forecast change is
\* above 2 %, the sentiment above 0.1 and the label None; otherwise SELL
\* exactly when the change is below -2 % or the sentiment below -0.1 or the
\* label Severe; otherwise HOLD.
C1_DecisionTable ==
    Done("investment_strategy") =>
        LET buy == args.forecast_change > 200 /\ args.sentiment_score > 10
                   /\ args.anomaly_level = "None"
            sell == args.forecast_change < -200 \/ args.sentiment_score < -10
                    \/ args.anomaly_level = "Severe"
            d == result.value.decision
        IN  /\ result.status = "return"
            /\ d \in {"BUY", "SELL", "HOLD"}
            /\ (d = "BUY") <=> buy
            /\ (d = "SELL") <=> (~buy /\ sell)
            /\ (d = "HOLD") <=> (~buy /\ ~sell)

\* A BUY just above both thresholds (2.01 %, sentiment 0.11, no anomaly).
C1_Witness ==
    /\ Done("investment_strategy")
    /\ args.forecast_change = 201 /\ args.sentiment_score = 11
    /\ args.anomaly_level = "None"
    /\ result.value.decision = "BUY"

\* C2 (as the claim states it): the second component returned by
\* investment_strategy is a list of exactly two reason strings, the
\* sentiment reason and then the anomaly reason.
C2_ReasonsAreAList ==
    Done("investment_strategy") =>
        /\ result.value.reason.type = "list"
        /\ Len(result.value.reason.val) = 2

\* C2 (amended): the second component is one string, the sentiment reason
\* ("Positive sentiment" above 0.2, "Negative sentiment" below -0.2, else
\* "Neutral sentiment"), then "; ", then the anomaly reason matching the
\* label.
C2_ReasonText ==
    Done("investment_strategy") =>
        LET s == args.sentiment_score
            l == args.anomaly_level
            sr == CASE s > 20 -> "Positive sentiment"
                    [] s < -20 -> "Negative sentiment"
                    [] OTHER -> "Neutral sentiment"
            ar == CASE l = "Severe" -> "Severe anomalies detected"
                    [] l = "Mild" -> "Mild anomalies detected"
                    [] l = "None" -> "No anomalies detected"
        IN  /\ result.status = "return"
            /\ result.value.reason.type = "str"
            /\ result.value.reason.val = sr \o "; " \o ar

\* The spec's BUY scenario (3.0 %, 0.5, None) has been decided.
C2_Witness ==
    /\ Done("investment_strategy")
    /\ args.forecast_change = 300 /\ args.sentiment_score = 50
    /\ args.anomaly_level = "None"
    /\ result.value.decision = "BUY"
    /\ result.value.reason.val = "Positive sentiment; No anomalies detected"

Sims == CosineSims(args.question, args.sentences, args.weight)

\* C3: for every question, sentence sequence of length n and positive
\* top_k, answer_question returns exactly min(top_k, n) (score, sentence)
\* pairs, each from a distinct position of the input with that position's
\* score, the scores non-increasing along the result.
C3_RankedResult ==
    Done("answer_question") =>
        /\ result.status = "return"
        /\ LET idxs == result.value.idxs
               pairs == result.value.pairs
               n == Len(args.sentences)
           IN  /\ Len(pairs) = Min(args.top_k, n)
               /\ Len(idxs) = Len(pairs)
               /\ \A k \in 1..Len(idxs) : idxs[k] \in 1..n
               /\ \A k, l \in 1..Len(idxs) : k # l => idxs[k] # idxs[l]
               /\ \A k \in 1..Len(pairs) :
                     pairs[k] = <<Sims[idxs[k]], args.sentences[idxs[k]]>>
               /\ \A k \in 1..(Len(pairs) - 1) : pairs[k][1] >= pairs[k + 1][1]

\* Whenever answer_question returns, its result is as C3 says.
C3_RankedWhenReturned ==
    (Done("answer_question") /\ result.status = "return") => C3_RankedResult

\* C4 (as the claim states it): sentences with equal scores are returned in
\* their original order, and when a tie straddles the top_k cut-off the
\* earlier sentence is the one selected.  Stated for sentences whose texts
\* differ: between two copies of one sentence the result shows no order.
C4_TiesInOriginalOrder ==
    (Done("answer_question") /\ result.status = "return") =>
        LET idxs == result.value.idxs
            sent == args.sentences
            chosen == {idxs[k] : k \in 1..Len(idxs)}
        IN  /\ \A k, l \in 1..Len(idxs) :
                  (k < l /\ Sims[idxs[k]] = Sims[idxs[l]]
                         /\ sent[idxs[k]] # sent[idxs[l]]) => idxs[k] < idxs[l]
            /\ \A i \in chosen : \A j \in (1..Len(sent)) \ chosen :
                  (Sims[i] = Sims[j] /\ sent[i] # sent[j]) => i < j

\* C4 (amended): the order of sentences with equal scores, and which of
\* them is selected at the cut-off, is not by original position (the sort is
\* unstable and its result is reversed).  What is ordered is the score:
\* every sentence that scores strictly higher than a returned sentence is
\* returned too, and before it.
C4_HigherScoresFirst ==
    (Done("answer_question") /\ result.status = "return") =>
        LET idxs == result.value.idxs
        IN  \A k \in 1..Len(idxs) : \A j \in 1..Len(args.sentences) :
                Sims[j] > Sims[idxs[k]] =>
                    \E l \in 1..(k - 1) : idxs[l] = j

\* Two sentences tie across the cut-off of top_k = 1, a third scores higher:
\* the higher one is returned.  And a tie where the later sentence is
\* returned before the earlier one.
C4_Witness ==
    /\ Done("answer_question") /\ result.status = "return"
    /\ Len(args.sentences) = 3
    /\ args.top_k = 2
    /\ Sims[1] = Sims[2] /\ Sims[3] > Sims[1] /\ Sims[1] > 0
    /\ result.value.idxs = <<3, 2>>

\* The day-over-day returns that exist in a Close column: one per pair of
\* consecutive readable prices (after forward-filling, when pandas pads).
ReturnCount(close, fill_pad) ==
    LET known(i) == IF fill_pad THEN \E j \in 1..i : close[j] # NaN
                    ELSE close[i] # NaN
    IN  Cardinality({i \in 2..Len(close) : known(i) /\ known(i - 1)})

\* C5: for every price series with fewer than 5 day-over-day returns
\* (series of 0 or 1 prices included), anomaly_from_prices does not fail and
\* returns the label None with n the number of returns and max z 0.0,
\* whatever the prices and thresholds.
C5_TooFewReturns ==
    (Done("anomaly_from_prices")
        /\ ReturnCount(args.close, args.fill_pad) < 5) =>
        /\ result.status = "return"
        /\ result.value = [label |-> "None",
                           n |-> ReturnCount(args.close, args.fill_pad),
                           max_z |-> 0]

\* A series of 5 prices (4 returns) that swings between 1 and 2 has been
\* labelled.
C5_Witness ==
    /\ Done("anomaly_from_prices")
    /\ args.close = <<1, 2, 1, 2, 1>>
    /\ result.value.n = 4
    /\ result.value.label = "None"

\* C6: with at least 5 returns the label is Severe if the maximum absolute
\* z-score is >= the severe threshold, else Mild if it is >= the mild
\* threshold, else None; n is the number of returns and max z that maximum.
C6_LabelByThreshold ==
    (Done("anomaly_from_prices")
        /\ ReturnCount(args.close, args.fill_pad) >= 5) =>
        LET rets == DropNa(PctChange(args.close, args.fill_pad))
            z == MaxAbsZ(rets)
            mild == args.thresholds[1]
            severe == args.thresholds[2]
            v == result.value
        IN  /\ result.status = "return"
            /\ v.n = ReturnCount(args.close, args.fill_pad)
            /\ v.max_z = z
            /\ (v.label = "Severe") <=> (z >= severe)
            /\ (v.label = "Mild") <=> (z < severe /\ z >= mild)
            /\ (v.label = "None") <=> (z < severe /\ z < mild)

\* A series whose maximum z-score is exactly the severe threshold is
\* labelled Severe.
C6_Witness ==
    /\ Done("anomaly_from_prices")
    /\ result.value.n >= 5
    /\ result.value.max_z = args.thresholds[2]
    /\ result.value.label = "Severe"

\* C7: forecast_prices fails with the invalid-horizon error for every
\* horizon <= 0 whatever the series, with the empty-returns error for every
\* positive horizon when the series has fewer than 2 prices, and returns a
\* forecast for every positive horizon and series of at least 2 prices.
C7_ForecastErrors ==
    Done("forecast_prices") =>
        LET h == args.horizon_days
            n == Len(args.hist_df)
        IN  /\ h <= 0 => result = Raise("ValueError: horizon_days must be > 0.")
            /\ (h > 0 /\ n < 2) =>
                  result = Raise("ValueError: Return series is empty after cleaning.")
            /\ (h > 0 /\ n >= 2) => result.status = "return"

\* A horizon of 0 on an empty series has been refused for its horizon.
C7_Witness ==
    /\ Done("forecast_prices")
    /\ args.horizon_days = 0 /\ Len(args.hist_df) = 0
    /\ result.status = "raise"

\* C8: a forecast has exactly horizon_days rows; the first is dated the day
\* after the series' last date, each next one a day after the one before,
\* so all are after the last historical date.
C8_ForecastDates ==
    (Done("forecast_prices") /\ result.status = "return") =>
        LET rows == result.value
            last == args.hist_df[Len(args.hist_df)].Date
        IN  /\ Len(rows) = args.horizon_days
            /\ rows[1].Date = last + 1
            /\ \A t \in 1..(Len(rows) - 1) : rows[t + 1].Date = rows[t].Date + 1
            /\ \A t \in 1..Len(rows) : \A i \in 1..Len(args.hist_df) :
                  rows[t].Date > args.hist_df[i].Date

\* A forecast of the longest horizon from a series with a gap in its dates.
C8_Witness ==
    /\ Done("forecast_prices") /\ result.status = "return"
    /\ args.horizon_days = MaxHorizon
    /\ Len(args.hist_df) = 2
    /\ args.hist_df[1].Date = 1 /\ args.hist_df[2].Date = 3
    /\ result.value[MaxHorizon].Date = 3 + MaxHorizon

\* The arithmetic mean of all day-over-day fractional returns of a series,
\* as the fraction <<numerator, denominator>> over a common denominator
\* (not reduced).
RECURSIVE ReturnSumOver(_, _)
ReturnSumOver(hist, i) ==
    IF i < 2 THEN <<0, 1>>
    ELSE LET rest == ReturnSumOver(hist, i - 1)
             p == hist[i - 1].Close
             q == hist[i].Close
         IN  <<rest[1] * p + (q - p) * rest[2], rest[2] * p>>

MeanReturn(hist) ==
    LET total == ReturnSumOver(hist, Len(hist))
    IN  <<total[1], total[2] * (Len(hist) - 1)>>

\* C9: the predicted price at step 1 is lastPrice * (1 + meanReturn), and at
\* each later step the previous prediction times (1 + meanReturn), where
\* meanReturn is the mean of all returns of the series: step t is
\* lastPrice * (1 + meanReturn)^t.
C9_CompoundedDrift ==
    (Done("forecast_prices") /\ result.status = "return") =>
        LET rows == result.value
            hist == args.hist_df
            m == MeanReturn(hist)
            onePlusM == Rat(m[2] + m[1], m[2])
        IN  /\ rows[1].Predicted = RatMul(RatInt(hist[Len(hist)].Close), onePlusM)
            /\ \A t \in 1..(Len(rows) - 1) :
                  rows[t + 1].Predicted = RatMul(rows[t].Predicted, onePlusM)

\* The series 1, 2, 3 (returns 1 and 1/2, mean 3/4) forecast 2 days ahead:
\* 3 * 7/4 = 21/4, then 3 * 49/16 = 147/16.
C9_Witness ==
    /\ Done("forecast_prices") /\ result.status = "return"
    /\ Len(args.hist_df) = 3
    /\ args.hist_df[1].Close = 1 /\ args.hist_df[2].Close = 2
    /\ args.hist_df[3].Close = 3
    /\ args.horizon_days = 2
    /\ result.value[1].Predicted = <<21, 4>>
    /\ result.value[2].Predicted = <<147, 16>>

\* The position in a priority list of its first name that is a column
\* (0: none is).
FirstHit(cands, columns) ==
    IF \A i \in 1..Len(cands) : cands[i] \notin columns THEN 0
    ELSE CHOOSE i \in 1..Len(cands) :
            /\ cands[i] \in columns
            /\ \A j \in 1..(i - 1) : cands[j] \notin columns

\* C10: clean_price_csv selects as date column the first name of the date
\* priority list that is a column, and as price column the first name of
\* the price priority list that is a column; it fails with the schema error
\* when no date column or no price column is recognised (so for the columns
\* foo and bar), and never with the schema error when both are.
C10_ColumnSelection ==
    Done("clean_price_csv") =>
        LET cols == args.df.columns
            d == FirstHit(<<"Date", "date", "timestamp", "Datetime", "datetime">>, cols)
            c == FirstHit(<<"Close", "Adj Close", "close", "adj_close", "Price", "price">>,
                          cols)
        IN  /\ (d = 0 \/ c = 0) <=> (result = Raise(SchemaError))
            /\ result.status = "return" =>
                  /\ result.value.date_col =
                        <<"Date", "date", "timestamp", "Datetime", "datetime">>[d]
                  /\ result.value.close_col =
                        <<"Close", "Adj Close", "close", "adj_close", "Price", "price">>[c]
            /\ cols = {"foo", "bar"} => result = Raise(SchemaError)

\* A table with two date columns and two price columns, neither the first
\* of its list, has been cleaned from the one that comes first in the list.
C10_Witness ==
    /\ Done("clean_price_csv") /\ result.status = "return"
    /\ args.df.columns = {"foo", "datetime", "timestamp", "price", "adj_close"}
    /\ result.value.date_col = "timestamp"
    /\ result.value.close_col = "adj_close"

\* The dates of a table that have at least one row whose date and price
\* are both readable.
ValidDates(rows) ==
    {rows[i].date : i \in {j \in 1..Len(rows) :
                              rows[j].date # BadCell /\ rows[j].close # BadCell}}

\* C11: a series that clean_price_csv returns has no row with a missing
\* date or price, no two rows with the same date, is strictly ascending by
\* date, has exactly one row for each date that had a fully valid input row,
\* and has at least 10 rows; when fewer than 10 rows remain it fails with
\* the insufficient-data error instead.
C11_CleanSeries ==
    (Done("clean_price_csv") /\ result # Raise(SchemaError)) =>
        LET rows == args.df.rows
            dates == ValidDates(rows)
        IN  /\ Cardinality(dates) < 10 <=> result = Raise(TooFewRowsError)
            /\ Cardinality(dates) >= 10 <=> result.status = "return"
            /\ result.status = "return" =>
                  LET out == result.value.out
                  IN  /\ Len(out) >= 10
                      /\ \A i \in 1..Len(out) :
                            /\ out[i].Date # NaT /\ out[i].Close # NaN
                            /\ \E j \in 1..Len(rows) :
                                  rows[j].date = out[i].Date /\ rows[j].close = out[i].Close
                      /\ \A i \in 1..(Len(out) - 1) : out[i].Date < out[i + 1].Date
                      /\ {out[i].Date : i \in 1..Len(out)} = dates
                      /\ Len(out) = Cardinality(dates)

\* A table of 11 dates in descending order, the price of one unreadable,
\* after a row that repeats a date and a row without a date: 10 rows are
\* returned, ascending.
C11_Witness ==
    /\ Done("clean_price_csv") /\ result.status = "return"
    /\ Len(args.df.rows) = 13
    /\ args.df.rows[1] = [date |-> 2, close |-> 7]
    /\ args.df.rows[2] = [date |-> BadCell, close |-> 7]
    /\ args.df.rows[3] = [date |-> 11, close |-> BadCell]
    /\ Len(result.value.out) = 10
    /\ result.value.out[1] = [Date |-> 1, Close |-> 101]
    /\ result.value.out[2] = [Date |-> 2, Close |-> 7]

\* C12: every series that fetch_prices returns has strictly increasing
\* dates (so no repeated date), no missing date or price and at least 10
\* rows, whatever frame the remote source returned; a source that returns
\* nothing makes fetch_prices fail with the no-data error.
C12_FetchedSeries ==
    Done("fetch_prices") =>
        /\ (args.df.kind = "none" \/ FrameEmpty(args.df))
              => result = Raise(EmptyFrameError)
        /\ result.status = "return" =>
              LET out == result.value.out
              IN  /\ Len(out) >= 10
                  /\ \A i \in 1..Len(out) : out[i].Date # NaT /\ out[i].Close # NaN
                  /\ \A i \in 1..(Len(out) - 1) : out[i].Date < out[i + 1].Date

\* What fetch_prices does keep of C12: no missing date or price, at least
\* 10 rows, the no-data error, and the rows in the order the source gave.
C12_FetchedAsGiven ==
    Done("fetch_prices") =>
        /\ (args.df.kind = "none" \/ FrameEmpty(args.df))
              => result = Raise(EmptyFrameError)
        /\ result.status = "return" =>
              LET out == result.value.out
                  rows == args.df.rows
                  kept == SelectSeq(rows, LAMBDA r : r.date # BadCell /\ r.close # BadCell)
              IN  /\ Len(out) >= 10
                  /\ \A i \in 1..Len(out) : out[i].Date # NaT /\ out[i].Close # NaN
                  /\ out = [i \in 1..Len(kept) |->
                               [Date |-> kept[i].date, Close |-> kept[i].close]]

\* A frame of 10 dates in descending order is returned in that order.
C12_Witness ==
    /\ Done("fetch_prices") /\ result.status = "return"
    /\ args.df.rows = BaseRows(10, TRUE, 0)
    /\ result.value.out[1].Date = 10 /\ result.value.out[10].Date = 1

\* The non-empty sentences of a tokenized text, stripped.
NonEmptySents(tokenized) ==
    LET kept == SelectSeq(tokenized, LAMBDA s : s \notin {"", " "})
    IN  [i \in 1..Len(kept) |-> IF kept[i] = " Loss. " THEN "Loss." ELSE kept[i]]

\* The least c with c * w >= n.
CeilDiv(n, w) == CHOOSE c \in 0..n : c * w >= n /\ (c = 0 \/ (c - 1) * w < n)

\* C14: for a text of n non-empty sentences and a positive window w,
\* rolling_sentiment returns exactly ceil(n / w) records, in order, with the
\* indices 0 .. ceil(n / w) - 1; record j scores the sentences j*w up to
\* min((j+1)*w, n) - 1 joined, so the chunks do not overlap, every sentence
\* is in exactly one chunk and only the last chunk may be shorter than w; a
\* text with no sentence returns the empty sequence.
C14_RollingChunks ==
    (Done("rolling_sentiment") /\ args.window_sentences > 0) =>
        LET sents == NonEmptySents(args.tokenized)
            n == Len(sents)
            w == args.window_sentences
            count == CeilDiv(n, w)
        IN  /\ result.status = "return"
            /\ Len(result.value) = count
            /\ n = 0 => result.value = <<>>
            /\ \A k \in 1..count :
                  LET j == k - 1
                      last == IF (j + 1) * w < n THEN (j + 1) * w ELSE n
                  IN  /\ result.value[k].index = j
                      /\ result.value[k].compound
                            = Compound(Join(" ", [m \in 1..(last - j * w) |->
                                                      sents[j * w + m]]))
                      /\ (k < count => last - j * w = w)
                      /\ last - j * w >= 1

\* Four sentences, one blank between them, in windows of 2: two rows, the
\* second scoring a single sentence.
C14_Witness ==
    /\ Done("rolling_sentiment")
    /\ args.tokenized = <<"Gain.", " ", " Loss. ", "Gain.">>
    /\ args.window_sentences = 2
    /\ result = Return(<<[index |-> 0, compound |-> Compound("Gain. Loss.")],
                         [index |-> 1, compound |-> Compound("Gain.")]>>)

\* The four session values a forecast leaves behind.
Latest(s) ==
    <<s.latest_proj_change, s.latest_anomaly_label, s.latest_sentiment,
      s.latest_export>>

Populated(s) ==
    /\ s.doc_text = sample_doc
    /\ s.latest_sentiment # Unset
    /\ s.demo_question = Set(default_q)
    /\ s.demo_answers # Unset /\ s.demo_answers # Set(<<>>)
    /\ s.demo_hist # Unset /\ s.demo_fore # Unset
    /\ s.latest_proj_change # Unset
    /\ s.latest_anomaly_label \in Labels
    /\ s.latest_export # Unset

\* C15: at the end of every run in which the Quick Demo button was clicked,
\* whatever the session held before and whether or not the document
\* uploader holds a file, all tabs are populated: the demo document, a
\* sentiment score, the demo question and answers, the demo history and
\* forecast, the projected change, the anomaly label and an export record.
C15_DemoPopulatesAllTabs ==
    (run.at = "idle" /\ run.clicked = "demo") => Populated(session)

\* What holds of C15: the demo populates all tabs when the uploader holds
\* no file, or one that cannot be read.
C15_DemoPopulatesWithoutFile ==
    (run.at = "idle" /\ run.clicked = "demo"
        /\ (uploaded = Unset \/ ~uploaded[1].readable)) => Populated(session)

\* The Quick Demo run of a session whose uploader holds a readable file.
C15_Witness ==
    /\ run.at = "idle" /\ run.clicked = "demo"
    /\ uploaded # Unset /\ uploaded[1].readable
    /\ session.demo_hist # Unset

\* An export record whose decision and reason are those of its own inputs.
SelfConsistent(e) ==
    LET strategy == investment_strategy(e.projected_change_pct,
                                        e.sentiment_compound, e.anomaly.label)
    IN  e.decision = strategy.decision /\ e.reason = strategy.reason

\* C16: in every reachable session state a set export record is
\* self-consistent: its decision and reason are what investment_strategy
\* returns for the projected_change_pct, the sentiment_compound and the
\* anomaly label stored in that record.
C16_ExportSelfConsistent ==
    session.latest_export # Unset => SelfConsistent(session.latest_export[1])

\* What holds of C16: the record is self-consistent at the end of the run
\* that wrote it whole (a Quick Demo without a readable file in the
\* uploader, a forecast of the user's own that succeeded).
C16_ConsistentWhenWritten ==
    (/\ run.at = "idle"
     /\ session.latest_export # Unset
     /\ \/ run.clicked = "demo" /\ (uploaded = Unset \/ ~uploaded[1].readable)
        \/ /\ run.clicked = "forecast" /\ ~run.failed
           /\ session.latest_export[1].source \in Sources
           /\ session.latest_proj_change
                 = Set(session.latest_export[1].projected_change_pct)
           /\ session.latest_anomaly_label = session.latest_export[1].anomaly.label)
        => SelfConsistent(session.latest_export[1])

\* An export record of the user's own forecast after the demo block has
\* rewritten its decision.
C16_Witness ==
    /\ session.latest_export # Unset
    /\ session.latest_export[1].source \in Sources
    /\ session.demo_hist # Unset
    /\ run.at = "idle" /\ run.clicked = "nav"
    /\ session.mode = modes[3]

=============================================================================
